---------------------------- MODULE Spec2Model ----------------------------
(***************************************************************************)
(* Order matching and aggregation (AAATriplefarm/v1).                      *)
(*                                                                         *)
(* Strings are sequences of character tokens, so that trimming, case       *)
(* folding, concatenation and collation are computed and not assumed.      *)
(* A token is one character, except for a few fixed texts of the program   *)
(* ("[unmatched-]", "[no-info]", "constructor") that are kept as one token each.     *)
(***************************************************************************)
EXTENDS Integers, Sequences, FiniteSets, TLC

VARIABLES
    pc,             \* position of the run being modelled
    orders,         \* OrderData[] read from the uploaded file
    matchingRules,  \* MatchingRuleGroup[] handed to processOrders
    processedData,  \* ProcessedData[] returned by processOrders
    contrib,        \* per order: the accumulator key, group and weight it was folded with
    csvRows,        \* per output row: the original quantity written by downloadCSV
    orderA,         \* first order given to createOrderIdentifier
    orderB,         \* second order given to createOrderIdentifier
    identifierA,    \* createOrderIdentifier(orderA)
    identifierB,    \* createOrderIdentifier(orderB)
    modal,          \* props and state of RuleCreationModal
    categories,     \* the category list of useCategories
    saved,          \* the rule group the modal handed to onSave, if any
    app,            \* App's useState values other than matchingRules and processedData
    inFlight,       \* the promises that are not settled yet (processExcelFile, loadBackup)
    localStorage,   \* the 'matchingRules' item of localStorage and the outcome of the last setItem
    productCategories, \* the 'productCategories' item of localStorage
    managers,       \* state of the two CategoryManager components (App's and the rule modal's)
    addedByRule,    \* the categories handleSave of the rule modal has added (history variable)
    history         \* the handler that ran last and what it was given (history variable)

vars == <<pc, orders, matchingRules, processedData, contrib, csvRows,
          orderA, orderB, identifierA, identifierB, modal, categories, saved,
          app, inFlight, localStorage, productCategories, managers, addedByRule,
          history>>

aggVars == <<orders, matchingRules, processedData, contrib, csvRows>>
idVars == <<orderA, orderB, identifierA, identifierB>>
modalVars == <<modal, categories, saved>>
appVars == <<app, inFlight, localStorage>>
catVars == <<productCategories, managers, addedByRule>>

-----------------------------------------------------------------------------
(* Bounds *)

MaxLen == 2
MaxOrders == 3
MaxGroups == 2
MaxTyped == 2

-----------------------------------------------------------------------------
(* Strings *)

\* A value that is undefined or null in the program.
Undefined == <<"<undefined>">>

Whitespace == {" "}

\* String.prototype.toLowerCase on one character.
LowerChar(c) ==
    CASE c = "A" -> "a"
      [] c = "B" -> "b"
      [] c = "G" -> "g"
      [] c = "R" -> "r"
      [] c = "S" -> "s"
      [] c = "V" -> "v"
      [] c = "W" -> "w"
      [] OTHER -> c

toLowerCase(s) == [i \in 1..Len(s) |-> LowerChar(s[i])]

RECURSIVE trimStart(_)
trimStart(s) ==
    IF s # <<>> /\ Head(s) \in Whitespace THEN trimStart(Tail(s)) ELSE s

RECURSIVE trimEnd(_)
trimEnd(s) ==
    IF s # <<>> /\ s[Len(s)] \in Whitespace
    THEN trimEnd(SubSeq(s, 1, Len(s) - 1))
    ELSE s

trim(s) == trimEnd(trimStart(s))

\* normalizeFieldValue without the trim.
normalizeFieldValueNoTrim(value) ==
    IF value = Undefined \/ value = <<>> THEN <<>>
    ELSE toLowerCase(value)

normalizeFieldValue(value) ==
    IF value = Undefined \/ value = <<>> THEN <<>>
    ELSE toLowerCase(trim(value))

createOrderIdentifier(order) ==
    normalizeFieldValue(order.seller) \o <<"|">> \o
    normalizeFieldValue(order.productNumber) \o <<"|">> \o
    normalizeFieldValue(order.productName) \o <<"|">> \o
    normalizeFieldValue(order.optionName)


-----------------------------------------------------------------------------
(* Collation: String.prototype.localeCompare *)

\* Primary weight of a character in the default collation: white space, then
\* punctuation, then symbols, then digits, then letters without regard to
\* case, then Hangul.
PrimaryWeight(c) ==
    CASE c = " " -> 1
      [] c = "-" -> 2
      [] c = "/" -> 3
      [] c = "|" -> 4
      [] c = "0" -> 5
      [] c = "1" -> 6
      [] c = "2" -> 7
      [] c \in {"a", "A"} -> 10
      [] c \in {"b", "B"} -> 11
      [] c = "constructor" -> 12
      [] c = "d" -> 13
      [] c = "e" -> 14
      [] c \in {"g", "G"} -> 15
      [] c = "i" -> 16
      [] c = "o" -> 17
      [] c \in {"r", "R"} -> 18
      [] c \in {"s", "S"} -> 19
      [] c = "t" -> 20
      [] c \in {"v", "V"} -> 21
      [] c \in {"w", "W"} -> 22
      [] c = "[unmatched-]" -> 30
      [] c = "[no-info]" -> 31
      [] OTHER -> 40

\* Tertiary weight: a lower-case letter sorts before its upper-case form.
TertiaryWeight(c) == IF c \in {"A", "B", "G", "R", "S", "V", "W"} THEN 1 ELSE 0

RECURSIVE CompareWeights(_, _, _)
CompareWeights(a, b, level) ==
    LET w(c) == IF level = 1 THEN PrimaryWeight(c) ELSE TertiaryWeight(c)
    IN  IF a = <<>> /\ b = <<>> THEN 0
        ELSE IF a = <<>> THEN -1
        ELSE IF b = <<>> THEN 1
        ELSE IF w(Head(a)) < w(Head(b)) THEN -1
        ELSE IF w(Head(a)) > w(Head(b)) THEN 1
        ELSE CompareWeights(Tail(a), Tail(b), level)

localeCompare(a, b) ==
    LET primary == CompareWeights(a, b, 1)
    IN  IF primary # 0 THEN primary ELSE CompareWeights(a, b, 2)

-----------------------------------------------------------------------------
(* excelProcessor: matching and aggregation *)

\* The text put in front of an identifier to key an unmatched accumulator row.
UnmatchedPrefix == <<"[unmatched-]">>

\* printName of an unmatched row whose seller, product name and option are empty.
Placeholder == <<"[no-info]">>

\* Property names every object literal inherits from Object.prototype.
ObjectPrototypeKeys == {<<"constructor">>}

\* Array.prototype.includes on a list of identifiers.
includes(list, x) == \E i \in 1..Len(list) : list[i] = x

\* rule.ruleWeights[ruleId], with 0 for a missing entry (both are falsy).
RuleWeightOf(rule, ruleId) ==
    IF ruleId \in DOMAIN rule.ruleWeights THEN rule.ruleWeights[ruleId] ELSE 0

\* The scan keeping the last group that has the identifier instead of the first.
ScanGroupsKeepLast(orderIdentifier, ruleGroups, i) ==
    LET holding == {g \in i..Len(ruleGroups) : includes(ruleGroups[g].rules, orderIdentifier)}
    IN  IF holding = {} THEN 0
        ELSE CHOOSE g \in holding : \A h \in holding : h <= g

\* Index of the first group whose rules list has the order's identifier, 0 for null.
RECURSIVE ScanGroups(_, _, _)
ScanGroups(orderIdentifier, ruleGroups, i) ==
    IF i > Len(ruleGroups) THEN 0
    ELSE IF includes(ruleGroups[i].rules, orderIdentifier) THEN i
    ELSE ScanGroups(orderIdentifier, ruleGroups, i + 1)

\* findMatchingRule that finds no group.
findMatchingRuleNone(order, ruleGroups) == 0

findMatchingRule(order, ruleGroups) ==
    ScanGroups(createOrderIdentifier(order), ruleGroups, 1)

\* ResolveWeight without the per-identifier override.
ResolveWeightDefaultOnly(rule, ruleId) ==
    IF rule.quantityWeight # 0 THEN rule.quantityWeight ELSE 1

\* The weight processOrders applies to an order matched by rule.
ResolveWeight(rule, ruleId) ==
    IF RuleWeightOf(rule, ruleId) # 0 THEN RuleWeightOf(rule, ruleId)
    ELSE IF rule.quantityWeight # 0 THEN rule.quantityWeight
    ELSE 1

\* The accumulator object is a list of own (key, row) entries in insertion order.
OwnIndex(acc, key) ==
    IF \E i \in 1..Len(acc) : acc[i].key = key
    THEN CHOOSE i \in 1..Len(acc) : acc[i].key = key
    ELSE 0

\* processedData[key] is truthy: an own row, or a property of Object.prototype.
HasEntry(acc, key) == OwnIndex(acc, key) # 0 \/ key \in ObjectPrototypeKeys

NewMatchedRow(key, rule) ==
    [ productName |-> <<"[collected-]">> \o key, printName |-> key, isMatched |-> TRUE,
      salesAmount |-> 0, settlementAmount |-> 0, orderCount |-> 0, quantity |-> 0,
      purchaseAmount |-> 0, weight |-> 0, stockLocation |-> <<>>, boxSpec |-> <<>>,
      originalOrder |-> <<>>, matchedRuleId |-> rule.id ]

\* [order.seller, order.productName, order.optionName].filter(Boolean).join(' / ')
RECURSIVE JoinNonEmpty(_)
JoinNonEmpty(parts) ==
    IF parts = <<>> THEN <<>>
    ELSE LET rest == JoinNonEmpty(Tail(parts))
         IN  IF Head(parts) = <<>> THEN rest
             ELSE IF rest = <<>> THEN Head(parts)
             ELSE Head(parts) \o <<" ", "/", " ">> \o rest

NewUnmatchedRow(key, order) ==
    LET joined == JoinNonEmpty(<<order.seller, order.productName, order.optionName>>)
    IN  [ productName |-> key,
          printName |-> IF joined = <<>> THEN Placeholder ELSE joined,
          isMatched |-> FALSE,
          salesAmount |-> 0, settlementAmount |-> 0, orderCount |-> 0, quantity |-> 0,
          purchaseAmount |-> 0, weight |-> 0,
          stockLocation |-> order.stockLocation, boxSpec |-> order.boxSpec,
          originalOrder |-> <<order>>, matchedRuleId |-> "" ]

\* Accumulate that keeps the latest order of an unmatched row.
AccumulateLatestOrder(row, order, calculatedQuantity, matched) ==
    [ row EXCEPT
        !.quantity = @ + calculatedQuantity,
        !.salesAmount = @ + order.paymentAmount,
        !.settlementAmount = @ + order.settlementAmount,
        !.orderCount = @ + 1,
        !.purchaseAmount = @ + order.purchaseAmount,
        !.weight = @ + order.weight * order.quantity,
        !.originalOrder = IF matched THEN @ ELSE <<order>> ]

\* The += lines shared by both branches; a matched order also fills in the
\* first non-empty stockLocation and boxSpec.
Accumulate(row, order, calculatedQuantity, matched) ==
    [ row EXCEPT
        !.quantity = @ + calculatedQuantity,
        !.salesAmount = @ + order.paymentAmount,
        !.settlementAmount = @ + order.settlementAmount,
        !.orderCount = @ + 1,
        !.purchaseAmount = @ + order.purchaseAmount,
        !.weight = @ + order.weight * order.quantity,
        !.stockLocation =
            IF matched /\ @ = <<>> /\ order.stockLocation # <<>>
            THEN order.stockLocation ELSE @,
        !.boxSpec =
            IF matched /\ @ = <<>> /\ order.boxSpec # <<>>
            THEN order.boxSpec ELSE @ ]

\* Keying the matched accumulator by the group's id.
MatchedKeyById(rule) == <<rule.id>>

\* The accumulator key of a matched order: the group's name, not its id.
MatchedKey(rule) == rule.productName

\* One iteration of orders.forEach: the accumulator after the order, and the
\* record of what the order was folded with.
FoldOrder(st, order, ruleGroups) ==
    LET m == findMatchingRule(order, ruleGroups)
        ruleId == createOrderIdentifier(order)
        key == IF m # 0 THEN MatchedKey(ruleGroups[m]) ELSE UnmatchedPrefix \o ruleId
        weight == IF m # 0 THEN ResolveWeight(ruleGroups[m], ruleId) ELSE 1
        fresh == IF m # 0 THEN NewMatchedRow(key, ruleGroups[m])
                 ELSE NewUnmatchedRow(key, order)
        acc1 == IF HasEntry(st.acc, key) THEN st.acc
                ELSE Append(st.acc, [key |-> key, row |-> fresh])
        k == OwnIndex(acc1, key)
        \* a key inherited from Object.prototype is written to that object and
        \* leaves the accumulator without a row
        acc2 == IF k = 0 THEN acc1
                ELSE [acc1 EXCEPT ![k].row =
                        Accumulate(@, order, order.quantity * weight, m # 0)]
    IN  [ acc |-> acc2,
          log |-> Append(st.log, [key |-> key, group |-> m, weight |-> weight,
                                  stored |-> k # 0]) ]

RECURSIVE FoldOrders(_, _, _, _)
FoldOrders(st, os, ruleGroups, i) ==
    IF i > Len(os) THEN st
    ELSE FoldOrders(FoldOrder(st, os[i], ruleGroups), os, ruleGroups, i + 1)

\* The comparator without its two isMatched lines.
SortCompareByNameOnly(a, b) == localeCompare(a.printName, b.printName)

\* The comparator given to Array.prototype.sort.
SortCompare(a, b) ==
    IF a.isMatched /\ ~b.isMatched THEN -1
    ELSE IF ~a.isMatched /\ b.isMatched THEN 1
    ELSE localeCompare(a.printName, b.printName)

\* Array.prototype.sort is stable: a row goes after the rows that do not
\* compare greater than it.
RECURSIVE InsertSorted(_, _)
InsertSorted(sorted, row) ==
    IF sorted = <<>> THEN <<row>>
    ELSE IF SortCompare(row, Head(sorted)) < 0 THEN <<row>> \o sorted
    ELSE <<Head(sorted)>> \o InsertSorted(Tail(sorted), row)

RECURSIVE SortRows(_, _)
SortRows(sorted, rest) ==
    IF rest = <<>> THEN sorted
    ELSE SortRows(InsertSorted(sorted, Head(rest)), Tail(rest))

\* Object.values(processedData): the own rows in insertion order (no key of
\* the model is an array index, which would come first).
ObjectValues(acc) == [i \in 1..Len(acc) |-> acc[i].row]

FoldAll(os, ruleGroups) ==
    FoldOrders([acc |-> <<>>, log |-> <<>>], os, ruleGroups, 1)

processOrders(os, ruleGroups) ==
    SortRows(<<>>, ObjectValues(FoldAll(os, ruleGroups).acc))

-----------------------------------------------------------------------------
(* App: the original quantity shown in the table and written to the CSV *)

\* matchingRules.find(rule => rule.id === id), as an index (0: not found).
FindRuleById(rules, id) ==
    IF \E i \in 1..Len(rules) : rules[i].id = id
    THEN CHOOSE i \in 1..Len(rules) :
            rules[i].id = id /\ \A j \in 1..(i - 1) : rules[j].id # id
    ELSE 0

\* matchingRules.find(rule => rule.productName === name), as an index.
FindRuleByName(rules, name) ==
    IF \E i \in 1..Len(rules) : rules[i].productName = name
    THEN CHOOSE i \in 1..Len(rules) :
            rules[i].productName = name
            /\ \A j \in 1..(i - 1) : rules[j].productName # name
    ELSE 0

getMatchingWeight(item, rules) ==
    IF ~item.isMatched THEN 1
    ELSE LET k == IF item.matchedRuleId # "" THEN FindRuleById(rules, item.matchedRuleId)
                  ELSE FindRuleByName(rules, item.printName)
         IN  IF k = 0 THEN 1
             ELSE IF item.originalOrder # <<>>
                     /\ RuleWeightOf(rules[k], createOrderIdentifier(item.originalOrder[1])) # 0
                  THEN RuleWeightOf(rules[k], createOrderIdentifier(item.originalOrder[1]))
             ELSE IF rules[k].quantityWeight # 0 THEN rules[k].quantityWeight
             ELSE 1

\* Math.round(num / den) for integers, den # 0: the nearest integer, a half
\* going up.
MathRound(num, den) ==
    IF den > 0 THEN (2 * num + den) \div (2 * den)
    ELSE (-(2 * num + den)) \div (-(2 * den))

getOriginalQuantity(row, rules) ==
    IF ~row.isMatched THEN row.quantity
    ELSE MathRound(row.quantity, getMatchingWeight(row, rules))

\* Array.prototype.reduce((sum, x) => sum + x, 0) on a list of numbers.
RECURSIVE SeqSum(_)
SeqSum(seq) == IF seq = <<>> THEN 0 ELSE Head(seq) + SeqSum(Tail(seq))

\* The data rows and the totals row of downloadCSV (the quoting of the
\* fields and the file download are not modelled).
CsvContent(rows, rules) ==
    [ rows |-> [i \in 1..Len(rows) |->
                 [ printName |-> rows[i].printName,
                   isMatched |-> rows[i].isMatched,
                   orderCount |-> rows[i].orderCount,
                   originalQuantity |-> getOriginalQuantity(rows[i], rules),
                   quantity |-> rows[i].quantity ]],
      total |->
        [ orderCount |-> SeqSum([i \in 1..Len(rows) |-> rows[i].orderCount]),
          originalQuantity |->
            SeqSum([i \in 1..Len(rows) |->
                MathRound(rows[i].quantity, getMatchingWeight(rows[i], rules))]),
          quantity |-> SeqSum([i \in 1..Len(rows) |-> rows[i].quantity]) ] ]

NoCsv == [rows |-> <<>>, total |-> [orderCount |-> 0, originalQuantity |-> 0, quantity |-> 0]]

-----------------------------------------------------------------------------
(* Inputs of the aggregation *)

MkOrder(seller, productNumber, productName, optionName, quantity, amount) ==
    [ seller |-> seller, productNumber |-> productNumber,
      productName |-> productName, optionName |-> optionName,
      quantity |-> quantity,
      paymentAmount |-> amount, settlementAmount |-> amount, purchaseAmount |-> amount,
      weight |-> amount,
      stockLocation |-> IF amount = 0 THEN <<>> ELSE <<"a">>,
      boxSpec |-> IF amount = 0 THEN <<>> ELSE <<"b">> ]

\* Orders as readExcelFile returns them: string fields, at least one key
\* field non-empty.
OrderPool ==
    { MkOrder(<<"a">>, <<>>, <<>>, <<>>, 1, 0),
      MkOrder(<<" ", "A">>, <<>>, <<>>, <<>>, 2, 1),
      MkOrder(<<"B">>, <<>>, <<>>, <<"w">>, 1, 0),
      MkOrder(<<>>, <<"1">>, <<>>, <<>>, 2, 0) }

IdA == <<"a", "|", "|", "|">>
IdB == <<"b", "|", "|", "|", "w">>

NoWeights == [x \in {} |-> 0]
OneWeight(ruleId, w) == [x \in {ruleId} |-> w]

MkGroup(productName, quantityWeight, rules, ruleWeights) ==
    [ id |-> "", productName |-> productName, stock |-> 0,
      quantityWeight |-> quantityWeight, rules |-> rules, ruleWeights |-> ruleWeights ]

\* Rule groups as the rule set can hold them (created in the modal, or read
\* from a backup file or from localStorage).
GroupPool ==
    { MkGroup(<<"W">>, 1, <<IdA>>, OneWeight(IdA, 2)),
      MkGroup(<<"W">>, 2, <<IdA, IdB>>, NoWeights),
      MkGroup(<<"v">>, 0, <<IdB>>, OneWeight(IdB, 0)),
      MkGroup(<<"v">>, 2, <<IdB, IdA>>, OneWeight(IdA, 3)),
      MkGroup(<<"W">>, -2, <<IdB>>, NoWeights),
      MkGroup(UnmatchedPrefix \o IdB, 2, <<IdA>>, NoWeights),
      MkGroup(<<"constructor">>, 1, <<IdA>>, NoWeights) }

\* The orders and the rule group of the worked example: two orders that differ
\* in letter case only, a third of another seller without option name, and
\* one group with default weight 1 and an override of 2.
ScenarioOrders ==
    << MkOrder(<<"S","t","o","r","e","A">>, <<"1","0","0">>,
               <<"W","i","d","g","e","t">>, <<"R","e","d">>, 3, 0),
       MkOrder(<<"s","t","o","r","e","a">>, <<"1","0","0">>,
               <<"w","i","d","g","e","t">>, <<"r","e","d">>, 2, 0),
       MkOrder(<<"S","t","o","r","e","B">>, <<"2","0","0">>,
               <<"G","a","d","g","e","t">>, <<>>, 5, 0) >>

ScenarioIdentifier ==
    <<"s","t","o","r","e","a","|","1","0","0","|","w","i","d","g","e","t","|","r","e","d">>

ScenarioRules ==
    << [ MkGroup(<<"W","i","d","g","e","t","s">>, 1, <<ScenarioIdentifier>>,
                 OneWeight(ScenarioIdentifier, 2)) EXCEPT !.id = "r1" ] >>

\* generateUniqueId: every group of the rule set has its own id.
RuleIds == <<"r1", "r2", "r3", "r4", "r5", "r6">>

WithIds(groups) == [i \in 1..Len(groups) |-> [groups[i] EXCEPT !.id = RuleIds[i]]]

SeqsUpTo(S, n) == UNION {[1..k -> S] : k \in 0..n}

NoOrder == MkOrder(<<>>, <<>>, <<>>, <<>>, 0, 0)

\* RuleCreationModal before it is first opened: closed, with the initial
\* values of its useState hooks.
NoModal ==
    [ isOpen |-> FALSE, isEditMode |-> FALSE,
      unmatchedItem |-> <<>>, existingRule |-> <<>>,
      selectedCategory |-> <<>>, customProductName |-> <<>>,
      quantityWeight |-> 1, specificRuleWeight |-> 1,
      showCustomInput |-> FALSE ]

\* App before the first event: no file retained, nothing loading, no error,
\* the rule modal and the detail view closed.
NoApp ==
    [ originalFile |-> <<>>, error |-> "", isLoading |-> FALSE,
      isRuleModalOpen |-> FALSE, isEditMode |-> FALSE,
      selectedUnmatchedItem |-> <<>>, selectedRuleForEdit |-> <<>>,
      isDetailViewOpen |-> FALSE, selectedRuleForDetail |-> <<>> ]

NoStorage == [item |-> <<>>, attempted |-> <<>>, failed |-> FALSE]

NoHistory == [event |-> "", arg |-> <<>>, events |-> 0]

\* A CategoryManager that is not mounted.
NoManager ==
    [ mounted |-> FALSE, isOpen |-> FALSE, categories |-> <<>>,
      localCategories |-> <<>>, isDirty |-> FALSE, deleted |-> {} ]

\* The runs that have no category manager in them.
NoCategoryManagers ==
    /\ productCategories = <<>>
    /\ managers = [app |-> NoManager, modal |-> NoManager]
    /\ addedByRule = {}

\* The handler that ran in this step, and the value it was given.
Event(name, arg) == history' = [history EXCEPT !.event = name, !.arg = arg]

Init ==
    /\ pc = "loaded"
    /\ \/ /\ orders \in SeqsUpTo(OrderPool, MaxOrders)
          /\ \E gs \in SeqsUpTo(GroupPool, MaxGroups) : matchingRules = WithIds(gs)
       \/ /\ orders = ScenarioOrders
          /\ matchingRules = ScenarioRules
    /\ processedData = <<>>
    /\ contrib = <<>>
    /\ csvRows = NoCsv
    /\ orderA = NoOrder /\ orderB = NoOrder
    /\ identifierA = <<>> /\ identifierB = <<>>
    /\ modal = NoModal /\ categories = <<>> /\ saved = <<>>
    /\ app = NoApp /\ inFlight = <<>> /\ localStorage = NoStorage
    /\ history = NoHistory /\ NoCategoryManagers

\* runProcess on the retained file: processExcelFile, then setProcessedData.
RunProcess ==
    /\ pc = "loaded"
    /\ processedData' = processOrders(orders, matchingRules)
    /\ contrib' = FoldAll(orders, matchingRules).log
    /\ pc' = "shown"
    /\ UNCHANGED <<orders, matchingRules, csvRows>>
    /\ UNCHANGED idVars /\ UNCHANGED modalVars
    /\ UNCHANGED appVars /\ UNCHANGED catVars /\ UNCHANGED history

\* downloadCSV
DownloadCSV ==
    /\ pc = "shown"
    /\ Len(processedData) # 0
    /\ csvRows' = CsvContent(processedData, matchingRules)
    /\ pc' = "exported"
    /\ UNCHANGED <<orders, matchingRules, processedData, contrib>>
    /\ UNCHANGED idVars /\ UNCHANGED modalVars
    /\ UNCHANGED appVars /\ UNCHANGED catVars /\ UNCHANGED history

Next == RunProcess \/ DownloadCSV

Spec == Init /\ [][Next]_vars

-----------------------------------------------------------------------------
(* Properties of the aggregation *)

Processed == pc # "loaded"

RowIndexes == 1..Len(processedData)
OrderIndexes == 1..Len(orders)

IdentifierOf(i) == createOrderIdentifier(orders[i])

\* The groups that list an identifier among their rules.
GroupsHolding(ruleId) ==
    {g \in 1..Len(matchingRules) :
        \E k \in 1..Len(matchingRules[g].rules) : matchingRules[g].rules[k] = ruleId}

\* C1: every input order is counted in exactly one output row: its
\* accumulator row is in the output, and the orderCount of all output rows
\* adds up to the number of input orders.
C1_PartitionTotality ==
    Processed =>
        /\ SeqSum([r \in RowIndexes |-> processedData[r].orderCount]) = Len(orders)
        /\ \A i \in OrderIndexes :
                Cardinality({r \in RowIndexes :
                    processedData[r].productName \in
                        {contrib[i].key, <<"[collected-]">> \o contrib[i].key}}) = 1

\* The orders a rule group of the given name matched, each with its quantity
\* times the weight resolved for its group and identifier.
WeightedQuantityOfName(name) ==
    SeqSum([i \in OrderIndexes |->
        LET g == findMatchingRule(orders[i], matchingRules)
        IN  IF g # 0 /\ matchingRules[g].productName = name
            THEN orders[i].quantity * ResolveWeight(matchingRules[g], IdentifierOf(i))
            ELSE 0])

\* C2: the quantity of a Matched row is the sum, over the orders matched by a
\* group of the row's name, of quantity times resolved weight.
C2_WeightedSumExact ==
    Processed =>
        \A r \in RowIndexes :
            processedData[r].isMatched =>
                processedData[r].quantity = WeightedQuantityOfName(processedData[r].printName)

\* The plain quantity of the orders with the given identifier that no group matched.
RawQuantityOfIdentifier(ruleId) ==
    SeqSum([i \in OrderIndexes |->
        IF IdentifierOf(i) = ruleId /\ GroupsHolding(ruleId) = {}
        THEN orders[i].quantity ELSE 0])

\* C3: the quantity of an Unmatched row is the plain sum of the quantities of
\* the unmatched orders with the row's identifier.
C3_UnmatchedPlainSum ==
    Processed =>
        \A r \in RowIndexes :
            ~processedData[r].isMatched =>
                processedData[r].quantity =
                    RawQuantityOfIdentifier(
                        createOrderIdentifier(processedData[r].originalOrder[1]))

\* C5: an order is folded with the earliest group that lists its identifier,
\* and takes the unmatched path exactly when no group lists it.
C5_FirstMatchWins ==
    Processed =>
        \A i \in OrderIndexes :
            LET holding == GroupsHolding(IdentifierOf(i))
                g == contrib[i].group
            IN  /\ holding = {} <=> g = 0
                /\ g # 0 => /\ g \in holding
                            /\ \A h \in holding : g <= h
                            /\ contrib[i].key = matchingRules[g].productName
                /\ g = 0 => /\ contrib[i].key = UnmatchedPrefix \o IdentifierOf(i)
                            /\ contrib[i].weight = 1

C5_Witness ==
    /\ pc = "shown"
    /\ \E i \in OrderIndexes :
            /\ Cardinality(GroupsHolding(IdentifierOf(i))) = 2
            /\ contrib[i].group = 1
            /\ matchingRules[1].productName # matchingRules[2].productName
    /\ \E i \in OrderIndexes : contrib[i].group = 0

\* C6: the weight applied to a matched order is a positive integer: the
\* override when that is a positive integer, the default when there is no
\* override and the default is a positive integer, and never below 1.
C6_WeightPositive ==
    Processed =>
        \A i \in OrderIndexes :
            contrib[i].group # 0 =>
                LET rule == matchingRules[contrib[i].group]
                    ruleId == IdentifierOf(i)
                IN  /\ contrib[i].weight >= 1
                    /\ (ruleId \in DOMAIN rule.ruleWeights /\ rule.ruleWeights[ruleId] >= 1)
                            => contrib[i].weight = rule.ruleWeights[ruleId]
                    /\ (ruleId \notin DOMAIN rule.ruleWeights /\ rule.quantityWeight >= 1)
                            => contrib[i].weight = rule.quantityWeight

\* C8: every Matched row comes before every Unmatched row, and the rows of
\* each partition are in ascending locale order of printName.
C8_SortedOutput ==
    Processed =>
        \A i, j \in RowIndexes :
            i < j =>
                /\ ~(~processedData[i].isMatched /\ processedData[j].isMatched)
                /\ processedData[i].isMatched = processedData[j].isMatched
                        => localeCompare(processedData[i].printName,
                                         processedData[j].printName) <= 0

C8_Witness ==
    /\ pc = "shown"
    /\ Len(processedData) = 3
    /\ processedData # ObjectValues(FoldAll(orders, matchingRules).acc)
    /\ \E i, j \in RowIndexes :
            /\ i < j
            /\ processedData[i].isMatched /\ processedData[j].isMatched
            /\ processedData[i].printName = <<"v">>
            /\ processedData[j].printName = <<"W">>
    /\ \E i \in RowIndexes : ~processedData[i].isMatched

\* C9: matched orders are keyed by the name of their group: orders matched by
\* groups of one name share one accumulator row, and no two Matched rows of
\* the output have the same printName.
C9_GroupedByName ==
    Processed =>
        /\ \A i, j \in RowIndexes :
                (i # j /\ processedData[i].isMatched /\ processedData[j].isMatched)
                    => processedData[i].printName # processedData[j].printName
        /\ \A a, b \in OrderIndexes :
                (/\ contrib[a].group # 0
                 /\ contrib[b].group # 0
                 /\ matchingRules[contrib[a].group].productName
                        = matchingRules[contrib[b].group].productName)
                    => contrib[a].key = contrib[b].key

C9_Witness ==
    /\ pc = "shown"
    /\ \E a, b \in OrderIndexes :
            /\ contrib[a].group # 0 /\ contrib[b].group # 0
            /\ contrib[a].group # contrib[b].group
            /\ matchingRules[contrib[a].group].id # matchingRules[contrib[b].group].id
            /\ matchingRules[contrib[a].group].productName
                    = matchingRules[contrib[b].group].productName
            /\ Cardinality({r \in RowIndexes :
                    /\ processedData[r].isMatched
                    /\ processedData[r].printName
                            = matchingRules[contrib[a].group].productName
                    /\ processedData[r].orderCount >= 2}) = 1

\* The orders folded into the accumulator row of the given key.
FoldedInto(key) == {i \in OrderIndexes : contrib[i].key = key}

\* C10: the original quantity exported for a Matched row whose orders all
\* resolved to one weight is the plain sum of the quantities of those orders.
C10_OriginalQuantity ==
    pc = "exported" =>
        \A r \in RowIndexes :
            LET folded == FoldedInto(processedData[r].printName)
            IN  (/\ processedData[r].isMatched
                 /\ \A i, j \in folded : contrib[i].weight = contrib[j].weight)
                    => csvRows.rows[r].originalQuantity
                            = SeqSum([i \in OrderIndexes |->
                                IF i \in folded THEN orders[i].quantity ELSE 0])

\* C11: on the worked example processOrders returns exactly two rows, the
\* Matched row "Widgets" with orderCount 2 and quantity 10, then the Unmatched
\* row "StoreB / Gadget" with orderCount 1 and quantity 5.
C11_ScenarioOutput ==
    (Processed /\ orders = ScenarioOrders /\ matchingRules = ScenarioRules) =>
        /\ Len(processedData) = 2
        /\ processedData[1].isMatched
        /\ processedData[1].printName = <<"W","i","d","g","e","t","s">>
        /\ processedData[1].orderCount = 2
        /\ processedData[1].quantity = 10
        /\ ~processedData[2].isMatched
        /\ processedData[2].printName =
                <<"S","t","o","r","e","B"," ","/"," ","G","a","d","g","e","t">>
        /\ processedData[2].orderCount = 1
        /\ processedData[2].quantity = 5

C11_Witness ==
    /\ pc = "shown"
    /\ orders = ScenarioOrders /\ matchingRules = ScenarioRules
    /\ Len(processedData) = 2

-----------------------------------------------------------------------------
(* createOrderIdentifier on two orders *)

IdAlphabet == {"a", "A", " "}

\* The values of a key field: every text of at most MaxLen characters, and a
\* missing value.
FieldValues == SeqsUpTo(IdAlphabet, MaxLen) \cup {Undefined}

KeyFields == {"seller", "productNumber", "productName", "optionName"}

\* Orders whose key fields are pairwise equal up to case and white space
\* (the second and the third), and one with no key field at all.
BaseOrders ==
    { MkOrder(<<>>, <<>>, <<>>, <<>>, 1, 0),
      MkOrder(<<" ", "A">>, Undefined, <<"a", " ">>, <<"A">>, 1, 0),
      MkOrder(<<"a">>, <<>>, <<"A">>, <<" ", "a">>, 2, 1) }

InitId ==
    /\ pc = "two-orders"
    /\ \E p \in KeyFields, u, v \in FieldValues, baseA, baseB \in BaseOrders :
            /\ orderA = [baseA EXCEPT ![p] = u]
            /\ orderB = [baseB EXCEPT ![p] = v]
    /\ identifierA = <<>> /\ identifierB = <<>>
    /\ orders = <<>> /\ matchingRules = <<>> /\ processedData = <<>>
    /\ contrib = <<>> /\ csvRows = NoCsv
    /\ modal = NoModal /\ categories = <<>> /\ saved = <<>>
    /\ app = NoApp /\ inFlight = <<>> /\ localStorage = NoStorage
    /\ history = NoHistory /\ NoCategoryManagers

IdentifyA ==
    /\ pc = "two-orders"
    /\ identifierA' = createOrderIdentifier(orderA)
    /\ pc' = "one-identified"
    /\ UNCHANGED <<orderA, orderB, identifierB>>
    /\ UNCHANGED aggVars /\ UNCHANGED modalVars
    /\ UNCHANGED appVars /\ UNCHANGED catVars /\ UNCHANGED history

IdentifyB ==
    /\ pc = "one-identified"
    /\ identifierB' = createOrderIdentifier(orderB)
    /\ pc' = "identified"
    /\ UNCHANGED <<orderA, orderB, identifierA>>
    /\ UNCHANGED aggVars /\ UNCHANGED modalVars
    /\ UNCHANGED appVars /\ UNCHANGED catVars /\ UNCHANGED history

NextId == IdentifyA \/ IdentifyB

SpecId == InitId /\ [][NextId]_vars

\* A missing field counts as the empty text.
TextOf(value) == IF value = Undefined THEN <<>> ELSE value

IsBlank(s) == \A i \in 1..Len(s) : s[i] \in Whitespace

\* The two forms of one letter.
CasePairs == {{"a", "A"}, {"b", "B"}, {"v", "V"}, {"w", "W"}}

SameLetter(c, d) == c = d \/ {c, d} \in CasePairs

\* s and t are white space around two cores of equal length that agree
\* letter by letter up to case.
EqualUpToCaseAndSpace(s, t) ==
    \E i1 \in 1..(Len(s) + 1), i2 \in 1..(Len(t) + 1) :
        \E n \in 0..Len(s) :
            /\ i1 + n - 1 <= Len(s)
            /\ i2 + n - 1 <= Len(t)
            /\ IsBlank(SubSeq(s, 1, i1 - 1)) /\ IsBlank(SubSeq(s, i1 + n, Len(s)))
            /\ IsBlank(SubSeq(t, 1, i2 - 1)) /\ IsBlank(SubSeq(t, i2 + n, Len(t)))
            /\ \A k \in 0..(n - 1) : SameLetter(s[i1 + k], t[i2 + k])

SameKeyFields(a, b) ==
    \A f \in KeyFields : EqualUpToCaseAndSpace(TextOf(a[f]), TextOf(b[f]))

\* C4: two orders whose four key fields are equal up to case and surrounding
\* white space, a missing field counting as empty, have the same identifier,
\* whatever their quantities and other fields are.
C4_IdentifierInsensitive ==
    pc = "identified" =>
        (SameKeyFields(orderA, orderB) => identifierA = identifierB)

C4_Witness ==
    /\ pc = "identified"
    /\ identifierA = identifierB
    /\ \A f \in KeyFields : orderA[f] # orderB[f]
    /\ \E f \in KeyFields : orderA[f] = Undefined
    /\ orderA.quantity # orderB.quantity
    /\ orderA.paymentAmount # orderB.paymentAmount

-----------------------------------------------------------------------------
(* RuleCreationModal *)

\* generateUniqueId: an id no group of the given list has.
generateUniqueId(groups) ==
    LET k == CHOOSE k \in 1..Len(RuleIds) :
                /\ \A g \in 1..Len(groups) : groups[g].id # RuleIds[k]
                /\ \A j \in 1..(k - 1) : \E g \in 1..Len(groups) : groups[g].id = RuleIds[j]
    IN  RuleIds[k]

\* useCategories.addNewCategory, addCategory
addNewCategory(list, newCategory) ==
    IF trim(newCategory) = <<>> THEN list
    ELSE IF includes(list, trim(newCategory)) THEN list
    ELSE Append(list, trim(newCategory))

\* The effect that runs when the modal opens.
OpenedModal(isEditMode, unmatchedItem, existingRule, m, cats) ==
    LET base == [m EXCEPT !.isOpen = TRUE, !.isEditMode = isEditMode,
                          !.unmatchedItem = unmatchedItem,
                          !.existingRule = existingRule]
    IN  IF isEditMode /\ existingRule # <<>>
        THEN LET rule == existingRule[1]
                 default == IF rule.quantityWeight # 0 THEN rule.quantityWeight ELSE 1
                 specific ==
                    IF unmatchedItem # <<>>
                       /\ RuleWeightOf(rule, createOrderIdentifier(unmatchedItem[1])) # 0
                    THEN RuleWeightOf(rule, createOrderIdentifier(unmatchedItem[1]))
                    ELSE default
             IN  [base EXCEPT
                    !.selectedCategory =
                        IF includes(cats, rule.productName) THEN rule.productName ELSE @,
                    !.customProductName =
                        IF includes(cats, rule.productName) THEN @ ELSE rule.productName,
                    !.showCustomInput = ~includes(cats, rule.productName),
                    !.quantityWeight = default,
                    !.specificRuleWeight = specific]
        ELSE IF unmatchedItem # <<>>
        THEN [base EXCEPT !.selectedCategory = <<>>, !.customProductName = <<>>,
                          !.quantityWeight = 1, !.specificRuleWeight = 1,
                          !.showCustomInput = FALSE]
        ELSE base

\* onChange of the two weight inputs, for the integer n typed into the box:
\* parseInt(e.target.value) || 1
ParsedWeight(n) == IF n # 0 THEN n ELSE 1

\* TargetProductName without the trim.
TargetProductNameNoTrim(m) ==
    IF m.showCustomInput THEN m.customProductName ELSE m.selectedCategory

\* The product name handleSave settles on.
TargetProductName(m) ==
    IF m.showCustomInput THEN trim(m.customProductName) ELSE trim(m.selectedCategory)

\* Whether handleSave reaches onSave: a target item and a target name.
CanSave(m) ==
    /\ (IF m.isEditMode THEN m.existingRule ELSE m.unmatchedItem) # <<>>
    /\ TargetProductName(m) # <<>>
    /\ (m.isEditMode /\ m.existingRule # <<>>) \/ m.unmatchedItem # <<>>

\* NewRuleGroup that gives the edited group a new id.
NewRuleGroupNewId(m, usedGroups) ==
    IF m.isEditMode /\ m.existingRule # <<>>
    THEN [m.existingRule[1] EXCEPT
            !.productName = TargetProductName(m),
            !.quantityWeight = m.quantityWeight,
            !.id = generateUniqueId(usedGroups)]
    ELSE LET ruleIdentifier == createOrderIdentifier(m.unmatchedItem[1])
         IN  [ id |-> generateUniqueId(usedGroups),
               productName |-> TargetProductName(m), stock |-> 0,
               quantityWeight |-> m.quantityWeight,
               rules |-> <<ruleIdentifier>>,
               ruleWeights |-> OneWeight(ruleIdentifier, m.specificRuleWeight) ]

\* The group handleSave hands to onSave.
NewRuleGroup(m, usedGroups) ==
    IF m.isEditMode /\ m.existingRule # <<>>
    THEN LET rule == m.existingRule[1]
             edited == [rule EXCEPT
                            !.productName = TargetProductName(m),
                            !.quantityWeight = m.quantityWeight,
                            !.id = IF @ # "" THEN @ ELSE generateUniqueId(usedGroups)]
         IN  IF m.unmatchedItem # <<>>
             THEN LET ruleId == createOrderIdentifier(m.unmatchedItem[1])
                  IN  [edited EXCEPT !.ruleWeights =
                          [x \in (DOMAIN rule.ruleWeights) \cup {ruleId} |->
                              IF x = ruleId THEN m.specificRuleWeight
                              ELSE rule.ruleWeights[x]]]
             ELSE edited
    ELSE LET ruleIdentifier == createOrderIdentifier(m.unmatchedItem[1])
         IN  [ id |-> generateUniqueId(usedGroups),
               productName |-> TargetProductName(m), stock |-> 0,
               quantityWeight |-> m.quantityWeight,
               rules |-> <<ruleIdentifier>>,
               ruleWeights |-> OneWeight(ruleIdentifier, m.specificRuleWeight) ]

\* The category list after handleSave: a typed name that is new is added.
CategoriesAfterSave(m, cats) ==
    IF m.showCustomInput /\ trim(m.customProductName) # <<>>
       /\ ~includes(cats, trim(m.customProductName))
    THEN addNewCategory(cats, trim(m.customProductName))
    ELSE cats

\* onClose as App passes it: the modal closes and loses its item and rule.
ClosedModal(m) ==
    [m EXCEPT !.isOpen = FALSE, !.isEditMode = FALSE,
              !.unmatchedItem = <<>>, !.existingRule = <<>>]

\* Rule groups that can be opened for editing, as created in the modal.
EditableRules ==
    { [MkGroup(<<"v">>, 1, <<IdA>>, OneWeight(IdA, 2)) EXCEPT !.id = "r1"],
      [MkGroup(<<"W">>, 2, <<IdA, IdB>>, OneWeight(IdB, 1)) EXCEPT !.id = "r2"] }

\* Texts typed into the name box.
TypedNames == {<<>>, <<" ">>, <<"W", " ">>}

\* Integers typed into a weight box.
TypedWeights == (-MaxTyped)..MaxTyped

InitModal ==
    /\ pc = "modal"
    /\ modal = NoModal
    /\ categories \in {<<>>, <<<<"v">>>>}
    /\ saved = <<>>
    /\ orders = <<>> /\ matchingRules = <<>> /\ processedData = <<>>
    /\ contrib = <<>> /\ csvRows = NoCsv
    /\ orderA = NoOrder /\ orderB = NoOrder
    /\ identifierA = <<>> /\ identifierB = <<>>
    /\ app = NoApp /\ inFlight = <<>> /\ localStorage = NoStorage
    /\ history = NoHistory /\ NoCategoryManagers

modalFrame ==
    UNCHANGED <<pc>> /\ UNCHANGED aggVars /\ UNCHANGED idVars /\ UNCHANGED appVars /\ UNCHANGED catVars

\* handleUnmatchedClick on an unmatched row: the modal opens in create mode.
OpenCreate ==
    /\ ~modal.isOpen
    /\ \E item \in OrderPool :
            modal' = OpenedModal(FALSE, <<item>>, <<>>, modal, categories)
    /\ saved' = <<>>
    /\ UNCHANGED categories
    /\ Event("handleUnmatchedClick", <<>>)
    /\ modalFrame

\* handleMatchedItemEdit, handleEditRuleFromDetail: the modal opens in edit mode.
OpenEdit ==
    /\ ~modal.isOpen
    /\ \E rule \in EditableRules :
            modal' = OpenedModal(TRUE, <<>>, <<rule>>, modal, categories)
    /\ saved' = <<>>
    /\ UNCHANGED categories
    /\ Event("handleMatchedItemEdit", <<>>)
    /\ modalFrame

TypeQuantityWeight ==
    /\ modal.isOpen
    /\ \E n \in TypedWeights : modal' = [modal EXCEPT !.quantityWeight = ParsedWeight(n)]
    /\ UNCHANGED <<categories, saved>>
    /\ Event("setQuantityWeight", <<>>)
    /\ modalFrame

TypeSpecificRuleWeight ==
    /\ modal.isOpen
    /\ \E n \in TypedWeights :
            modal' = [modal EXCEPT !.specificRuleWeight = ParsedWeight(n)]
    /\ UNCHANGED <<categories, saved>>
    /\ Event("setSpecificRuleWeight", <<>>)
    /\ modalFrame

\* handleCategorySelect
SelectCategory ==
    /\ modal.isOpen /\ ~modal.showCustomInput
    /\ \E k \in 1..Len(categories) :
            modal' = [modal EXCEPT !.selectedCategory = categories[k]]
    /\ UNCHANGED <<categories, saved>>
    /\ Event("handleCategorySelect", <<>>)
    /\ modalFrame

\* The two buttons that switch between the category list and the name box.
ToggleCustomInput ==
    /\ modal.isOpen
    /\ modal' = [modal EXCEPT !.showCustomInput = ~@]
    /\ UNCHANGED <<categories, saved>>
    /\ Event("setShowCustomInput", <<>>)
    /\ modalFrame

TypeCustomName ==
    /\ modal.isOpen /\ modal.showCustomInput
    /\ \E name \in TypedNames : modal' = [modal EXCEPT !.customProductName = name]
    /\ UNCHANGED <<categories, saved>>
    /\ Event("setCustomProductName", <<>>)
    /\ modalFrame

\* handleSave with a target item and a target name: onSave, then onClose.
HandleSave ==
    /\ modal.isOpen
    /\ CanSave(modal)
    /\ categories' = CategoriesAfterSave(modal, categories)
    /\ saved' = <<NewRuleGroup(modal, modal.existingRule)>>
    /\ modal' = ClosedModal(modal)
    /\ Event("handleSave", <<>>)
    /\ modalFrame

\* handleSave without a target item or with a blank name: the alert, nothing else.
HandleSaveRejected ==
    /\ modal.isOpen
    /\ ~CanSave(modal)
    /\ UNCHANGED modalVars
    /\ Event("handleSave", <<>>)
    /\ modalFrame

\* The cancel button.
CancelModal ==
    /\ modal.isOpen
    /\ modal' = ClosedModal(modal)
    /\ UNCHANGED <<categories, saved>>
    /\ Event("onClose", <<>>)
    /\ modalFrame

NextModal ==
    \/ OpenCreate \/ OpenEdit
    \/ TypeQuantityWeight \/ TypeSpecificRuleWeight
    \/ SelectCategory \/ ToggleCustomInput \/ TypeCustomName
    \/ HandleSave \/ HandleSaveRejected \/ CancelModal

SpecModal == InitModal /\ [][NextModal]_vars

\* C7: every rule group the modal hands to onSave has a default weight of at
\* least 1 and no item weight below 1.
C7_SavedWeightsAtLeastOne ==
    \A k \in 1..Len(saved) :
        /\ saved[k].quantityWeight >= 1
        /\ \A x \in DOMAIN saved[k].ruleWeights : saved[k].ruleWeights[x] >= 1

\* The text of the name the modal holds: the name box or the chosen category.
NameText(m) == IF m.showCustomInput THEN m.customProductName ELSE m.selectedCategory

\* C16: handleSave on a name that is empty or white space only, in create or
\* edit mode, changes nothing: onSave is not called, no category is added and
\* the modal stays open as it was.
C16_BlankNameRejected ==
    [][ (history'.event = "handleSave" /\ modal.isOpen /\ IsBlank(NameText(modal)))
            => /\ modal' = modal
               /\ categories' = categories
               /\ saved' = <<>> ]_vars

C16_Witness ==
    /\ history.event = "handleSave"
    /\ modal.isOpen /\ modal.isEditMode /\ modal.showCustomInput
    /\ modal.customProductName = <<" ">>
    /\ saved = <<>>

-----------------------------------------------------------------------------
(* App: order files, backup files, passes in flight and the rule handlers *)

MaxEvents == 3
MaxInFlight == 2

\* Messages App puts in its error state.
ParseFailed == "[excel-failed]"
BackupFailed == "[backup-failed]"
StorageFailed == "[storage-failed]"

\* Files offered to the order-file input. readExcelFile resolves with the
\* orders of the first sheet or rejects (unreadable file, parsing error).
OrderFiles == {"f1", "f2", "f3"}

readExcelFile(file) ==
    CASE file = "f1" ->
            [ ok |-> TRUE,
              orders |-> << MkOrder(<<"a">>, <<>>, <<>>, <<>>, 1, 0),
                            MkOrder(<<"B">>, <<>>, <<>>, <<"w">>, 1, 0) >> ]
      [] file = "f2" ->
            [ ok |-> TRUE,
              orders |-> << MkOrder(<<"B">>, <<>>, <<>>, <<"w">>, 2, 0) >> ]
      [] OTHER -> [ ok |-> FALSE, orders |-> <<>> ]

processExcelFile(file, ruleGroups) ==
    LET data == readExcelFile(file)
    IN  IF data.ok
        THEN [ ok |-> TRUE, result |-> processOrders(data.orders, ruleGroups) ]
        ELSE [ ok |-> FALSE, result |-> <<>> ]

\* Backup files offered to the backup input, as JSON.parse returns them.
\* rules is <<>> when the field is missing and <<list>> when it is present;
\* isArray is Array.isArray(backup.rules).
BackupFiles ==
    { [ version |-> "v1", isArray |-> TRUE,
        rules |-> << << [MkGroup(<<"W">>, 1, <<IdA>>, NoWeights) EXCEPT !.id = "r1"],
                        MkGroup(<<"W">>, 2, <<IdB>>, NoWeights) >> >> ],
      [ version |-> "v2", isArray |-> TRUE,
        rules |-> << << [MkGroup(<<"v">>, 1, <<IdB>>, NoWeights) EXCEPT !.id = "r2"] >> >> ],
      [ version |-> "v1", isArray |-> FALSE,
        rules |-> << << [MkGroup(<<"v">>, 1, <<IdB>>, NoWeights) EXCEPT !.id = "r2"] >> >> ],
      [ version |-> "v1", isArray |-> FALSE, rules |-> <<>> ] }

\* loadBackup without the version test.
loadBackupAnyVersion(backup) ==
    IF backup.rules = <<>> \/ ~backup.isArray
    THEN [ ok |-> FALSE, rules |-> <<>> ]
    ELSE [ ok |-> TRUE, rules |-> backup.rules[1] ]

\* loadBackup: the rules of the file, or a rejection.
loadBackup(backup) ==
    IF backup.rules = <<>> \/ ~backup.isArray \/ backup.version # "v1"
    THEN [ ok |-> FALSE, rules |-> <<>> ]
    ELSE [ ok |-> TRUE, rules |-> backup.rules[1] ]

\* loadedRules.map(rule => rule.id ? rule : {...rule, id: generateUniqueId()})
RECURSIVE rulesWithIds(_, _)
rulesWithIds(loadedRules, i) ==
    IF i > Len(loadedRules) THEN loadedRules
    ELSE IF loadedRules[i].id # "" THEN rulesWithIds(loadedRules, i + 1)
    ELSE rulesWithIds([loadedRules EXCEPT ![i].id = generateUniqueId(loadedRules)], i + 1)

\* The save effect of App, run after a render in which matchingRules changed:
\* localStorage.setItem, and setError when it throws.
ErrorAfterSaveLoggedOnly(error, failed) == error

ErrorAfterSave(error, failed) == IF failed THEN StorageFailed ELSE error

StorageAfterSave(storage, rules, failed) ==
    IF failed THEN [storage EXCEPT !.attempted = rules, !.failed = TRUE]
    ELSE [item |-> rules, attempted |-> rules, failed |-> FALSE]

\* A promise of processExcelFile as runProcess awaits it.
Pass(file, rules) == [kind |-> "processExcelFile", file |-> file, rules |-> rules]

\* A promise of loadBackup as handleBackupUpload awaits it, with the
\* originalFile of the render the handler was created in.
BackupLoad(backup, originalFile) ==
    [kind |-> "loadBackup", backup |-> backup, originalFile |-> originalFile]

PassesInFlight == {i \in 1..Len(inFlight) : inFlight[i].kind = "processExcelFile"}

Remove(seq, i) == SubSeq(seq, 1, i - 1) \o SubSeq(seq, i + 1, Len(seq))

\* A modal or the detail view covers the page.
OverlayOpen == app.isRuleModalOpen \/ app.isDetailViewOpen

\* The result table is rendered.
TableShown == Len(processedData) > 0 /\ ~app.isLoading /\ ~OverlayOpen

\* A user event: the handler that ran, what it was given, and the count of
\* user events so far.
UserEvent(name, arg) ==
    history' = [event |-> name, arg |-> arg, events |-> history.events + 1]

\* A merge that puts the new group in the place of the existing one.
MergedGroupAsNewGroup(existingGroup, newRuleGroup) == newRuleGroup

\* handleRuleCreate, create mode, a group of the same productName exists: the
\* existing group with the new identifier and its weight.
MergedGroup(existingGroup, newRuleGroup) ==
    LET newIdentifier == newRuleGroup.rules[1]
        given == RuleWeightOf(newRuleGroup, newIdentifier)
        withWeight(w) ==
            [existingGroup EXCEPT !.ruleWeights =
                [x \in (DOMAIN @) \cup {newIdentifier} |->
                    IF x = newIdentifier THEN w ELSE @[x]]]
    IN  IF ~includes(existingGroup.rules, newIdentifier)
        THEN [withWeight(IF given # 0 THEN given ELSE newRuleGroup.quantityWeight)
                EXCEPT !.rules = Append(@, newIdentifier)]
        ELSE IF given # 0 THEN withWeight(given)
        ELSE existingGroup

\* handleRuleCreate that never merges.
handleRuleCreateAlwaysAppend(rules, isEditMode, selectedRuleForEdit, newRuleGroup) ==
    IF isEditMode /\ selectedRuleForEdit # <<>>
    THEN [i \in 1..Len(rules) |->
            IF rules[i].id = selectedRuleForEdit[1].id THEN newRuleGroup ELSE rules[i]]
    ELSE Append(rules, newRuleGroup)

\* handleRuleCreate: updatedRules.
handleRuleCreate(rules, isEditMode, selectedRuleForEdit, newRuleGroup) ==
    IF isEditMode /\ selectedRuleForEdit # <<>>
    THEN [i \in 1..Len(rules) |->
            IF rules[i].id = selectedRuleForEdit[1].id THEN newRuleGroup ELSE rules[i]]
    ELSE LET existingGroupIndex == FindRuleByName(rules, newRuleGroup.productName)
         IN  IF existingGroupIndex > 0
             THEN [rules EXCEPT ![existingGroupIndex] = MergedGroup(@, newRuleGroup)]
             ELSE Append(rules, newRuleGroup)

\* The merge writes into the existing group object itself: every promise in
\* flight whose rules array holds that object reads the written values when
\* its file has been read. An object is told by its id and its values.
SeenByPasses(passes, rules, updatedRules) ==
    [i \in 1..Len(passes) |->
        IF passes[i].kind = "processExcelFile"
        THEN [passes[i] EXCEPT !.rules =
                [k \in 1..Len(@) |->
                    IF \E g \in 1..Len(rules) :
                            rules[g] = @[k] /\ updatedRules[g].id = rules[g].id
                    THEN updatedRules[CHOOSE g \in 1..Len(rules) :
                            rules[g] = @[k] /\ updatedRules[g].id = rules[g].id]
                    ELSE @[k]]]
        ELSE passes[i]]

\* matchingRules.find by matchedRuleId, or by printName when the row has none.
MatchedRuleIndex(row, rules) ==
    IF row.matchedRuleId # "" THEN FindRuleById(rules, row.matchedRuleId)
    ELSE FindRuleByName(rules, row.printName)

\* DetailedMatchView.currentRuleIndex, as findIndex returns it (-1: none).
currentRuleIndex(allRules, matchingRule) ==
    LET hits == {i \in 1..Len(allRules) :
                    \/ allRules[i].id = matchingRule.id
                    \/ allRules[i].productName = matchingRule.productName}
    IN  IF hits = {} THEN -1
        ELSE (CHOOSE i \in hits : \A j \in hits : i <= j) - 1

\* updatedRules.splice(ruleIndex, 1): a negative index counts from the end.
Splice(rules, ruleIndex) ==
    LET start == IF ruleIndex < 0
                 THEN (IF Len(rules) + ruleIndex < 0 THEN 0 ELSE Len(rules) + ruleIndex)
                 ELSE ruleIndex
    IN  IF start >= Len(rules) THEN rules ELSE Remove(rules, start + 1)

\* The member delete button of the detail view: the group without the member
\* at index and without its weight.
WithoutMember(matchingRule, index) ==
    LET ruleId == matchingRule.rules[index]
    IN  [matchingRule EXCEPT
            !.rules = Remove(@, index),
            !.ruleWeights = [x \in (DOMAIN @) \ {ruleId} |-> @[x]]]

\* Array.prototype.filter: the elements whose index is in keep, in order.
Filtered(seq, keep) ==
    LET F[i \in 0..Len(seq)] ==
            IF i = 0 THEN <<>>
            ELSE IF i \in keep THEN Append(F[i - 1], seq[i]) ELSE F[i - 1]
    IN  F[Len(seq)]

\* What is typed into the rule modal before it is saved: a name in the name
\* box and the two weights.
Typings ==
    { [name |-> <<"W">>, quantityWeight |-> 2, specificRuleWeight |-> 2],
      [name |-> <<"W", " ">>, quantityWeight |-> 0, specificRuleWeight |-> 0],
      [name |-> <<"v">>, quantityWeight |-> 2, specificRuleWeight |-> 1] }

\* Rule sets found in localStorage on mount (every group has its id by then).
StoredRuleSets ==
    { <<>>,
      << [MkGroup(<<"W">>, 1, <<IdA>>, OneWeight(IdA, 2)) EXCEPT !.id = "r1"] >>,
      << [MkGroup(<<"W">>, 1, <<IdA>>, NoWeights) EXCEPT !.id = "r1"],
         [MkGroup(<<"W">>, 2, <<IdB>>, NoWeights) EXCEPT !.id = "r2"] >>,
      << [MkGroup(<<"v">>, 1, <<IdA, IdB>>, OneWeight(IdB, 2)) EXCEPT !.id = "r1"] >> }

InitApp ==
    /\ pc = "app"
    /\ matchingRules \in StoredRuleSets
    /\ localStorage = [item |-> matchingRules, attempted |-> matchingRules, failed |-> FALSE]
    /\ app = NoApp /\ inFlight = <<>> /\ history = NoHistory /\ NoCategoryManagers
    /\ processedData = <<>>
    /\ modal = NoModal /\ categories = <<>> /\ saved = <<>>
    /\ orders = <<>> /\ contrib = <<>> /\ csvRows = NoCsv
    /\ orderA = NoOrder /\ orderB = NoOrder
    /\ identifierA = <<>> /\ identifierB = <<>>

appFrame ==
    /\ UNCHANGED <<pc, orders, contrib, csvRows, saved>>
    /\ UNCHANGED idVars /\ UNCHANGED catVars

\* setMatchingRules(updatedRules), the rest of the handler up to its await,
\* and the save effect of the render that follows: runProcess is called when
\* the handler's originalFile is set.
SetRulesThenRun(updatedRules, nextApp, originalFile, passes) ==
    \E failed \in BOOLEAN :
        /\ matchingRules' = updatedRules
        /\ localStorage' = StorageAfterSave(localStorage, updatedRules, failed)
        /\ IF originalFile # <<>>
           THEN /\ inFlight' = Append(passes, Pass(originalFile[1], updatedRules))
                /\ app' = [nextApp EXCEPT !.isLoading = TRUE,
                                          !.error = ErrorAfterSave("", failed)]
           ELSE /\ inFlight' = passes
                /\ app' = [nextApp EXCEPT !.error = ErrorAfterSave(@, failed)]

\* handleFileUpload up to its await.
HandleFileUpload ==
    /\ pc = "app" /\ ~OverlayOpen
    /\ history.events < MaxEvents /\ Len(inFlight) < MaxInFlight
    /\ \E file \in OrderFiles :
        /\ app' = [app EXCEPT !.originalFile = <<file>>, !.isLoading = TRUE, !.error = ""]
        /\ inFlight' = Append(inFlight, Pass(file, matchingRules))
        /\ UserEvent("handleFileUpload", <<file>>)
    /\ UNCHANGED <<matchingRules, processedData, localStorage, modal, categories>>
    /\ appFrame

\* A processExcelFile promise settles and runProcess runs to its end.
SettleProcessExcelFile ==
    /\ pc = "app"
    /\ \E i \in PassesInFlight :
        LET result == processExcelFile(inFlight[i].file, inFlight[i].rules)
        IN  /\ processedData' = result.result
            /\ app' = [app EXCEPT !.isLoading = FALSE,
                                  !.error = IF result.ok THEN @ ELSE ParseFailed]
            /\ inFlight' = Remove(inFlight, i)
            /\ history' = [history EXCEPT !.event = "runProcess", !.arg = <<inFlight[i]>>]
    /\ UNCHANGED <<matchingRules, localStorage, modal, categories>>
    /\ appFrame

\* handleBackupUpload up to its await.
HandleBackupUpload ==
    /\ pc = "app" /\ ~OverlayOpen
    /\ history.events < MaxEvents /\ Len(inFlight) < MaxInFlight
    /\ \E backup \in BackupFiles :
        /\ app' = [app EXCEPT !.isLoading = TRUE, !.error = ""]
        /\ inFlight' = Append(inFlight, BackupLoad(backup, app.originalFile))
        /\ UserEvent("handleBackupUpload", <<backup>>)
    /\ UNCHANGED <<matchingRules, processedData, localStorage, modal, categories>>
    /\ appFrame

\* A loadBackup promise settles and handleBackupUpload runs on: to its end
\* when the file is rejected or no order file is retained, else to the await
\* of runProcess.
SettleLoadBackup ==
    /\ pc = "app"
    /\ \E i \in (1..Len(inFlight)) \ PassesInFlight :
        LET loaded == loadBackup(inFlight[i].backup)
            rest == Remove(inFlight, i)
        IN  /\ history' = [history EXCEPT !.event = "loadBackup", !.arg = <<inFlight[i]>>]
            /\ IF ~loaded.ok
               THEN /\ app' = [app EXCEPT !.error = BackupFailed, !.isLoading = FALSE]
                    /\ inFlight' = rest
                    /\ UNCHANGED <<matchingRules, processedData, localStorage>>
               ELSE /\ SetRulesThenRun(rulesWithIds(loaded.rules, 1),
                                       [app EXCEPT !.isLoading = FALSE],
                                       inFlight[i].originalFile, rest)
                    /\ processedData' =
                            IF inFlight[i].originalFile # <<>> THEN processedData ELSE <<>>
    /\ UNCHANGED <<modal, categories>>
    /\ appFrame

\* handleUnmatchedClick on an unmatched row of the table.
HandleUnmatchedClick ==
    /\ pc = "app" /\ TableShown /\ history.events < MaxEvents
    /\ \E r \in 1..Len(processedData) :
        /\ ~processedData[r].isMatched /\ processedData[r].originalOrder # <<>>
        /\ app' = [app EXCEPT !.selectedUnmatchedItem = processedData[r].originalOrder,
                              !.isEditMode = FALSE, !.selectedRuleForEdit = <<>>,
                              !.isRuleModalOpen = TRUE]
        /\ modal' = OpenedModal(FALSE, processedData[r].originalOrder, <<>>,
                                modal, categories)
        /\ UserEvent("handleUnmatchedClick", <<processedData[r]>>)
    /\ UNCHANGED <<matchingRules, processedData, localStorage, inFlight, categories>>
    /\ appFrame

\* handleMatchedItemEdit on a matched row whose rule is found.
HandleMatchedItemEdit ==
    /\ pc = "app" /\ TableShown /\ history.events < MaxEvents
    /\ \E r \in 1..Len(processedData) :
        LET k == MatchedRuleIndex(processedData[r], matchingRules)
        IN  /\ processedData[r].isMatched /\ k > 0
            /\ app' = [app EXCEPT !.selectedUnmatchedItem = <<>>,
                                  !.isEditMode = TRUE,
                                  !.selectedRuleForEdit = <<matchingRules[k]>>,
                                  !.isRuleModalOpen = TRUE]
            /\ modal' = OpenedModal(TRUE, <<>>, <<matchingRules[k]>>, modal, categories)
            /\ UserEvent("handleMatchedItemEdit", <<processedData[r]>>)
    /\ UNCHANGED <<matchingRules, processedData, localStorage, inFlight, categories>>
    /\ appFrame

\* handleMatchedItemDetail on a matched row whose rule is found.
HandleMatchedItemDetail ==
    /\ pc = "app" /\ TableShown /\ history.events < MaxEvents
    /\ \E r \in 1..Len(processedData) :
        LET k == MatchedRuleIndex(processedData[r], matchingRules)
        IN  /\ processedData[r].isMatched /\ k > 0
            /\ app' = [app EXCEPT !.selectedRuleForDetail = <<matchingRules[k]>>,
                                  !.isDetailViewOpen = TRUE]
            /\ UserEvent("handleMatchedItemDetail", <<processedData[r]>>)
    /\ UNCHANGED <<matchingRules, processedData, localStorage, inFlight, modal, categories>>
    /\ appFrame

\* handleMatchedItemDelete on a matched row, the confirm dialog accepted.
HandleMatchedItemDelete ==
    /\ pc = "app" /\ TableShown
    /\ history.events < MaxEvents /\ Len(inFlight) < MaxInFlight
    /\ \E r \in 1..Len(processedData) :
        LET row == processedData[r]
            keep == {i \in 1..Len(matchingRules) :
                        IF row.matchedRuleId # ""
                        THEN matchingRules[i].id # row.matchedRuleId
                        ELSE matchingRules[i].productName # row.printName}
            updatedRules == Filtered(matchingRules, keep)
        IN  /\ row.isMatched
            /\ SetRulesThenRun(updatedRules, app, app.originalFile, inFlight)
            /\ UserEvent("handleMatchedItemDelete", <<row>>)
    /\ UNCHANGED <<processedData, modal, categories>>
    /\ appFrame

\* The modal's handleSave with a name and weights typed, then handleRuleCreate
\* up to its await.
SaveRule ==
    /\ pc = "app" /\ app.isRuleModalOpen
    /\ history.events < MaxEvents /\ Len(inFlight) < MaxInFlight
    /\ \E typed \in Typings :
        LET m == [modal EXCEPT !.showCustomInput = TRUE,
                               !.customProductName = typed.name,
                               !.quantityWeight = ParsedWeight(typed.quantityWeight),
                               !.specificRuleWeight = ParsedWeight(typed.specificRuleWeight)]
            newRuleGroup == NewRuleGroup(m, matchingRules)
            updatedRules == handleRuleCreate(matchingRules, app.isEditMode,
                                             app.selectedRuleForEdit, newRuleGroup)
            seen == IF app.isEditMode /\ app.selectedRuleForEdit # <<>> THEN inFlight
                    ELSE SeenByPasses(inFlight, matchingRules, updatedRules)
        IN  /\ CanSave(m)
            /\ categories' = CategoriesAfterSave(m, categories)
            /\ modal' = ClosedModal(m)
            /\ SetRulesThenRun(updatedRules,
                               [app EXCEPT !.isRuleModalOpen = FALSE,
                                           !.selectedUnmatchedItem = <<>>,
                                           !.isEditMode = FALSE,
                                           !.selectedRuleForEdit = <<>>],
                               app.originalFile, seen)
            /\ UserEvent("handleRuleCreate", <<newRuleGroup, typed>>)
    /\ UNCHANGED processedData
    /\ appFrame

\* onClose of the rule modal.
CloseRuleModal ==
    /\ pc = "app" /\ app.isRuleModalOpen /\ history.events < MaxEvents
    /\ app' = [app EXCEPT !.isRuleModalOpen = FALSE, !.selectedUnmatchedItem = <<>>,
                          !.isEditMode = FALSE, !.selectedRuleForEdit = <<>>]
    /\ modal' = ClosedModal(modal)
    /\ UserEvent("onClose", <<>>)
    /\ UNCHANGED <<matchingRules, processedData, localStorage, inFlight, categories>>
    /\ appFrame

\* onClose of the detail view.
CloseDetailView ==
    /\ pc = "app" /\ app.isDetailViewOpen /\ history.events < MaxEvents
    /\ app' = [app EXCEPT !.isDetailViewOpen = FALSE]
    /\ UserEvent("onCloseDetail", <<>>)
    /\ UNCHANGED <<matchingRules, processedData, localStorage, inFlight, modal, categories>>
    /\ appFrame

\* handleEditRuleFromDetail
EditRuleFromDetail(rule) ==
    /\ app' = [app EXCEPT !.selectedRuleForEdit = <<rule>>, !.isEditMode = TRUE,
                          !.isDetailViewOpen = FALSE, !.isRuleModalOpen = TRUE]
    /\ modal' = OpenedModal(TRUE, app.selectedUnmatchedItem, <<rule>>, modal, categories)
    /\ UNCHANGED <<matchingRules, processedData, localStorage, inFlight>>

\* handleDeleteRuleFromDetail up to its await.
DeleteRuleFromDetail(ruleIndex) ==
    /\ SetRulesThenRun(Splice(matchingRules, ruleIndex),
                       [app EXCEPT !.isDetailViewOpen = FALSE],
                       app.originalFile, inFlight)
    /\ UNCHANGED <<processedData, modal>>

\* The two edit buttons of the detail view.
DetailEdit ==
    /\ pc = "app" /\ app.isDetailViewOpen /\ app.selectedRuleForDetail # <<>>
    /\ history.events < MaxEvents
    /\ EditRuleFromDetail(app.selectedRuleForDetail[1])
    /\ UserEvent("handleEditRuleFromDetail", app.selectedRuleForDetail)
    /\ UNCHANGED categories
    /\ appFrame

\* The delete-all button of the detail view, the confirm dialog accepted.
DetailDeleteAll ==
    /\ pc = "app" /\ app.isDetailViewOpen /\ app.selectedRuleForDetail # <<>>
    /\ history.events < MaxEvents /\ Len(inFlight) < MaxInFlight
    /\ DeleteRuleFromDetail(currentRuleIndex(matchingRules, app.selectedRuleForDetail[1]))
    /\ UserEvent("handleDeleteRuleFromDetail", app.selectedRuleForDetail)
    /\ UNCHANGED categories
    /\ appFrame

\* The delete button of one member in the detail view, the confirm dialog
\* accepted: the group is deleted when no member is left, else the modal
\* opens on the group without the member.
DetailRemoveMember ==
    /\ pc = "app" /\ app.isDetailViewOpen /\ app.selectedRuleForDetail # <<>>
    /\ history.events < MaxEvents /\ Len(inFlight) < MaxInFlight
    /\ \E index \in 1..Len(app.selectedRuleForDetail[1].rules) :
        LET matchingRule == app.selectedRuleForDetail[1]
            updatedRule == WithoutMember(matchingRule, index)
        IN  /\ IF Len(updatedRule.rules) = 0
               THEN DeleteRuleFromDetail(currentRuleIndex(matchingRules, matchingRule))
               ELSE EditRuleFromDetail(updatedRule)
            /\ UserEvent("removeMember", <<matchingRule, updatedRule>>)
    /\ UNCHANGED categories
    /\ appFrame

NextApp ==
    \/ HandleFileUpload \/ SettleProcessExcelFile
    \/ HandleBackupUpload \/ SettleLoadBackup
    \/ HandleUnmatchedClick \/ HandleMatchedItemEdit
    \/ HandleMatchedItemDetail \/ HandleMatchedItemDelete
    \/ SaveRule \/ CloseRuleModal \/ CloseDetailView
    \/ DetailEdit \/ DetailDeleteAll \/ DetailRemoveMember

SpecApp == InitApp /\ [][NextApp]_vars

-----------------------------------------------------------------------------
(* Properties of App *)

\* The rows processOrders gives for the retained file under the current rules.
AggregationOfRetained ==
    processExcelFile(app.originalFile[1], matchingRules).result

\* C13: once a file is retained and no promise is in flight, the displayed
\* rows are the aggregation of the most recently uploaded file under the
\* current rule set, also when requests overlapped.
C13_NewestRequestDisplayed ==
    (pc = "app" /\ app.originalFile # <<>> /\ inFlight = <<>>)
        => processedData = AggregationOfRetained

\* C14: the rule set changes only while no runProcess call is pending.
C14_NoRuleChangeDuringPass ==
    [][ matchingRules' # matchingRules => PassesInFlight = {} ]_vars

\* A backup file that is not of version "v1" or whose rules field is missing
\* or not an array.
InvalidBackup(backup) ==
    backup.version # "v1" \/ backup.rules = <<>> \/ ~backup.isArray

\* C15: when the backup that has been read is invalid, the load is rejected:
\* the error message is set and the rule set, the stored rule set and the
\* displayed rows are left as they were.
C15_InvalidBackupRejected ==
    [][ (history'.event = "loadBackup" /\ InvalidBackup(history'.arg[1].backup))
            => /\ app'.error = BackupFailed
               /\ matchingRules' = matchingRules
               /\ localStorage' = localStorage
               /\ processedData' = processedData ]_vars

C15_Witness ==
    /\ history.event = "loadBackup"
    /\ history.arg[1].backup.version = "v2"
    /\ app.error = BackupFailed
    /\ matchingRules # <<>> /\ processedData # <<>>

\* No row is displayed and neither the rule modal nor the detail view is open
\* as long as no order file is retained.
RowsNeedRetainedFile ==
    (pc = "app" /\ app.originalFile = <<>>)
        => processedData = <<>> /\ ~app.isRuleModalOpen /\ ~app.isDetailViewOpen

\* C18: when the setItem of a changed rule set throws, the error message is
\* set, and the rule set in memory is the one whose write was attempted, not
\* the one localStorage still holds.
C18_StorageFailureSurfaced ==
    [][ (matchingRules' # matchingRules /\ localStorage'.failed)
            => /\ app'.error = StorageFailed
               /\ matchingRules' = localStorage'.attempted
               /\ localStorage'.item = localStorage.item ]_vars

C18_Witness ==
    /\ history.event = "handleRuleCreate"
    /\ localStorage.failed
    /\ app.error = StorageFailed
    /\ matchingRules # localStorage.item

\* C19: handleRuleCreate in create mode. When a group has the target name, no
\* group is added, the first such group has the row's identifier among its
\* members exactly once with the item weight typed as its override, and the
\* other groups are as before; when no group has the name, one group with
\* that single member is appended.
C19_CreateMergesByName ==
    [][ (history'.event = "handleRuleCreate" /\ ~app.isEditMode)
            => LET typed == history'.arg[2]
                   name == trim(typed.name)
                   id == createOrderIdentifier(app.selectedUnmatchedItem[1])
                   k == FindRuleByName(matchingRules, name)
               IN  IF k > 0
                   THEN /\ Len(matchingRules') = Len(matchingRules)
                        /\ Cardinality({j \in 1..Len(matchingRules'[k].rules) :
                                            matchingRules'[k].rules[j] = id}) = 1
                        /\ id \in DOMAIN matchingRules'[k].ruleWeights
                        /\ matchingRules'[k].ruleWeights[id] =
                                ParsedWeight(typed.specificRuleWeight)
                        /\ \A g \in 1..Len(matchingRules) :
                                g # k => matchingRules'[g] = matchingRules[g]
                   ELSE /\ Len(matchingRules') = Len(matchingRules) + 1
                        /\ SubSeq(matchingRules', 1, Len(matchingRules)) = matchingRules
                        /\ matchingRules'[Len(matchingRules')].productName = name
                        /\ matchingRules'[Len(matchingRules')].rules = <<id>> ]_vars

C19_Witness ==
    /\ history.event = "handleRuleCreate"
    /\ \E k \in 1..Len(matchingRules) :
            /\ matchingRules[k].productName = history.arg[1].productName
            /\ matchingRules[k].id # history.arg[1].id
            /\ Len(matchingRules[k].rules) = 2
            /\ matchingRules[k].rules[2] = history.arg[1].rules[1]
            /\ matchingRules[k].ruleWeights[history.arg[1].rules[1]] = 2

\* C20: removing the last member of the group shown in the detail view
\* deletes that group, and no other, from the rule set.
C20_LastMemberDeletesGroup ==
    [][ (/\ history'.event = "removeMember"
         /\ Len(history'.arg[2].rules) = 0
         /\ \E g \in 1..Len(matchingRules) : matchingRules[g].id = history'.arg[1].id)
            => matchingRules' =
                    Filtered(matchingRules,
                             {g \in 1..Len(matchingRules) :
                                    matchingRules[g].id # history'.arg[1].id}) ]_vars

\* The ids of a rule set, in order.
IdsOf(rules) == [i \in 1..Len(rules) |-> rules[i].id]

\* Every group has an id and no two groups share one.
UniqueIds(rules) ==
    \A i, j \in 1..Len(rules) :
        rules[i].id # "" /\ (rules[i].id = rules[j].id => i = j)

ExpectedPrintName(order) ==
    LET sep == <<" ", "/", " ">>
        s == order.seller
        p == order.productName
        o == order.optionName
    IN  IF s = <<>> /\ p = <<>> /\ o = <<>> THEN Placeholder
        ELSE s \o (IF s # <<>> /\ (p # <<>> \/ o # <<>>) THEN sep ELSE <<>>)
               \o p \o (IF p # <<>> /\ o # <<>> THEN sep ELSE <<>>) \o o

\* C22: an Unmatched row is keyed by the identifier of its orders, its
\* originalOrder is the first order with that identifier and its printName is
\* that order's display name; where only unmatched orders were folded into
\* the row its stockLocation and boxSpec are that first order's too. A Matched
\* row has no originalOrder.
C22_UnmatchedFromFirstOrder ==
    Processed =>
        LET ids == [i \in OrderIndexes |-> IdentifierOf(i)]
        IN  \A r \in RowIndexes :
                LET row == processedData[r]
                IN  IF row.isMatched THEN row.originalOrder = <<>>
                    ELSE \E i \in OrderIndexes :
                            /\ row.originalOrder = <<orders[i]>>
                            /\ row.productName = UnmatchedPrefix \o ids[i]
                            /\ \A j \in 1..(i - 1) : ids[j] # ids[i]
                            /\ row.printName = ExpectedPrintName(orders[i])
                            /\ (\A j \in FoldedInto(row.productName) :
                                        contrib[j].group = 0)
                                    => /\ row.stockLocation = orders[i].stockLocation
                                       /\ row.boxSpec = orders[i].boxSpec

C22_Witness ==
    /\ Processed /\ Len(orders) = 3
    /\ IdentifierOf(1) = IdentifierOf(2) /\ orders[1] # orders[2]
    /\ orders[3].seller = <<>> /\ orders[3].productName = <<>>
    /\ \E r, q \in RowIndexes :
            /\ ~processedData[r].isMatched /\ processedData[r].orderCount = 2
            /\ processedData[r].originalOrder = <<orders[1]>>
            /\ ~processedData[q].isMatched /\ processedData[q].printName = Placeholder

\* C23: removing one member of a group that has other members replaces the
\* group in the rule set by the group without that member and without its
\* weight; the other groups stay as they are.
C23_MemberRemovalReplacesGroup ==
    [][ (history'.event = "removeMember" /\ Len(history'.arg[2].rules) > 0)
            => matchingRules' =
                    [g \in 1..Len(matchingRules) |->
                        IF matchingRules[g].id = history'.arg[1].id
                        THEN history'.arg[2] ELSE matchingRules[g]] ]_vars

\* C25: the row an order was folded into is a Matched row exactly when a
\* group matched the order.
C25_FlagAgreesWithOrders ==
    Processed =>
        \A i \in OrderIndexes : \A r \in RowIndexes :
            processedData[r].productName
                    \in {contrib[i].key, <<"[collected-]">> \o contrib[i].key}
                => processedData[r].isMatched = (contrib[i].group # 0)

\* The groups of a rule set other than the one of the given id, in order.
OtherGroups(rules, id) ==
    Filtered(rules, {g \in 1..Len(rules) : rules[g].id # id})

\* C26: deleting from the detail view (the delete-all button, or the removal
\* of the last member) takes the viewed group out of the rule set and leaves
\* every other group in it, unchanged and in the same order.
C26_DeleteRemovesViewedGroupOnly ==
    [][ (\/ history'.event = "handleDeleteRuleFromDetail"
         \/ history'.event = "removeMember" /\ Len(history'.arg[2].rules) = 0)
            => /\ OtherGroups(matchingRules', history'.arg[1].id)
                    = OtherGroups(matchingRules, history'.arg[1].id)
               /\ \A g \in 1..Len(matchingRules') :
                    matchingRules'[g].id # history'.arg[1].id ]_vars

\* C28: while a processExcelFile or loadBackup promise is pending, isLoading
\* is true, so the result table is not rendered.
C28_LoadingCoversPasses ==
    (pc = "app" /\ inFlight # <<>>) => (app.isLoading /\ ~TableShown)

\* C29: a merge in create mode leaves the existing group its id, productName,
\* stock and default weight and the weights of its other members, adds the
\* identifier to its members (once) and sets that identifier's weight; the
\* other groups are as before.
C29_MergeChangesOneMember ==
    [][ (/\ history'.event = "handleRuleCreate" /\ ~app.isEditMode
         /\ FindRuleByName(matchingRules, history'.arg[1].productName) > 0)
            => LET k == FindRuleByName(matchingRules, history'.arg[1].productName)
                   id == createOrderIdentifier(app.selectedUnmatchedItem[1])
                   old == matchingRules[k]
                   new == matchingRules'[k]
               IN  /\ Len(matchingRules') = Len(matchingRules)
                   /\ new.id = old.id /\ new.productName = old.productName
                   /\ new.stock = old.stock /\ new.quantityWeight = old.quantityWeight
                   /\ new.rules = IF includes(old.rules, id) THEN old.rules
                                  ELSE Append(old.rules, id)
                   /\ DOMAIN new.ruleWeights = (DOMAIN old.ruleWeights) \cup {id}
                   /\ \A x \in (DOMAIN old.ruleWeights) \ {id} :
                            new.ruleWeights[x] = old.ruleWeights[x]
                   /\ \A g \in 1..Len(matchingRules) :
                            g # k => matchingRules'[g] = matchingRules[g] ]_vars

C29_Witness ==
    /\ history.event = "handleRuleCreate"
    /\ history.arg[2].quantityWeight = 2
    /\ Len(matchingRules) = 1
    /\ matchingRules[1].id = "r1" /\ matchingRules[1].quantityWeight = 1
    /\ matchingRules[1].rules = <<IdA, IdB>>
    /\ matchingRules[1].ruleWeights[IdA] = 2
    /\ matchingRules[1].ruleWeights[IdB] = 2

-----------------------------------------------------------------------------
(* The rule operations of the table, each followed by its recompute *)

\* An order file has been uploaded and its pass has ended: the table shows
\* the rows of the retained file under the stored rule set.
InitRuleOps ==
    /\ pc = "app"
    /\ matchingRules \in StoredRuleSets
    /\ localStorage = [item |-> matchingRules, attempted |-> matchingRules, failed |-> FALSE]
    /\ \E file \in {f \in OrderFiles : readExcelFile(f).ok} :
            /\ app = [NoApp EXCEPT !.originalFile = <<file>>]
            /\ processedData = processExcelFile(file, matchingRules).result
    /\ inFlight = <<>> /\ history = NoHistory /\ NoCategoryManagers
    /\ modal = NoModal /\ categories = <<>> /\ saved = <<>>
    /\ orders = <<>> /\ contrib = <<>> /\ csvRows = NoCsv
    /\ orderA = NoOrder /\ orderB = NoOrder
    /\ identifierA = <<>> /\ identifierB = <<>>

\* Creating a rule from an unmatched row, editing a group, removing a member
\* and deleting a group, and the pass each of them starts.
NextRuleOps ==
    \/ HandleUnmatchedClick \/ HandleMatchedItemEdit
    \/ HandleMatchedItemDetail \/ HandleMatchedItemDelete
    \/ SaveRule \/ CloseRuleModal \/ CloseDetailView
    \/ DetailEdit \/ DetailDeleteAll \/ DetailRemoveMember
    \/ SettleProcessExcelFile

SpecRuleOps == InitRuleOps /\ [][NextRuleOps]_vars

\* No identifier is a member of two groups.
DisjointMembers(rules) ==
    \A g, h \in 1..Len(rules) :
        \A i \in 1..Len(rules[g].rules) : \A j \in 1..Len(rules[h].rules) :
            rules[g].rules[i] = rules[h].rules[j] => g = h

\* C27: from a rule set in which no identifier is a member of two groups,
\* the rule operations of the table, each followed by its pass, lead only to
\* rule sets in which no identifier is a member of two groups.
C27_MembersStayDisjoint ==
    pc = "app" => DisjointMembers(matchingRules)

C27_Witness ==
    /\ history.event = "runProcess" /\ history.events = 2
    /\ Len(matchingRules) = 2
    /\ matchingRules[1].rules = <<IdA>>
    /\ matchingRules[2].productName = <<"v">> /\ matchingRules[2].rules = <<IdB>>
    /\ Len(processedData) = 2
    /\ \A r \in 1..Len(processedData) : processedData[r].isMatched

-----------------------------------------------------------------------------
(* useCategories in the rule modal and in the two category managers *)

MaxCategories == 3
MaxCategoryEvents == 5

\* loadCategories when the item is a valid list: the list of localStorage.
loadCategories(stored) == stored

\* addCategory: the stored list with the category, written back when it is new.
addCategory(stored, newCategory) ==
    IF ~includes(stored, newCategory) THEN Append(stored, newCategory) ELSE stored

\* A CategoryManager after its mount: its useCategories has loaded the stored
\* list and the effect on [categories, isOpen] has copied it.
MountedManager(stored) ==
    [ mounted |-> TRUE, isOpen |-> FALSE, categories |-> loadCategories(stored),
      localCategories |-> loadCategories(stored), isDirty |-> FALSE, deleted |-> {} ]

\* The effect on [categories, isOpen] of CategoryManager.
LocalFromHook(manager) ==
    [manager EXCEPT !.localCategories = manager.categories, !.isDirty = FALSE]

\* Category lists found in localStorage on mount.
StoredCategories == { <<>>, << <<"v">> >> }

\* Names typed into the name box of the rule modal and of a category manager.
ModalTypedCategories == { <<"W">> }
ManagerTypedCategories == { <<"g">> }

\* The order the rule modal is opened on in create mode.
ClickedOrder == MkOrder(<<"a">>, <<>>, <<>>, <<>>, 1, 0)

\* App is mounted: RuleCreationModal and App's CategoryManager are mounted
\* with it and each useCategories has loaded the stored list; the manager of
\* the rule modal is mounted only while the rule modal is open.
InitCat ==
    /\ pc = "categories"
    /\ productCategories \in StoredCategories
    /\ categories = loadCategories(productCategories)
    /\ managers = [app |-> MountedManager(productCategories), modal |-> NoManager]
    /\ addedByRule = {}
    /\ modal = NoModal /\ saved = <<>>
    /\ orders = <<>> /\ matchingRules = <<>> /\ processedData = <<>>
    /\ contrib = <<>> /\ csvRows = NoCsv
    /\ orderA = NoOrder /\ orderB = NoOrder
    /\ identifierA = <<>> /\ identifierB = <<>>
    /\ app = NoApp /\ inFlight = <<>> /\ localStorage = NoStorage
    /\ history = NoHistory

catFrame ==
    UNCHANGED <<pc>> /\ UNCHANGED aggVars /\ UNCHANGED idVars /\ UNCHANGED appVars

\* The rule modal is open and no category manager covers it.
ModalOnTop == modal.isOpen /\ ~managers.modal.isOpen

\* The page is not covered.
PageOnTop == ~modal.isOpen /\ ~managers.app.isOpen

\* The rule modal opens, on an unmatched row or on a rule group, and mounts
\* its category manager.
CatOpenRuleModal ==
    /\ pc = "categories" /\ history.events < MaxCategoryEvents /\ PageOnTop
    /\ \/ modal' = OpenedModal(FALSE, <<ClickedOrder>>, <<>>, modal, categories)
       \/ \E rule \in EditableRules :
            modal' = OpenedModal(TRUE, <<>>, <<rule>>, modal, categories)
    /\ managers' = [managers EXCEPT !.modal = MountedManager(productCategories)]
    /\ saved' = <<>>
    /\ UNCHANGED <<categories, productCategories, addedByRule>>
    /\ UserEvent("openRuleModal", <<>>)
    /\ catFrame

\* handleCategorySelect
CatSelectCategory ==
    /\ pc = "categories" /\ history.events < MaxCategoryEvents /\ ModalOnTop /\ ~modal.showCustomInput
    /\ \E k \in 1..Len(categories) :
            modal' = [modal EXCEPT !.selectedCategory = categories[k]]
    /\ UNCHANGED <<categories, saved>> /\ UNCHANGED catVars
    /\ UserEvent("handleCategorySelect", <<>>)
    /\ catFrame

CatToggleCustomInput ==
    /\ pc = "categories" /\ history.events < MaxCategoryEvents /\ ModalOnTop
    /\ modal' = [modal EXCEPT !.showCustomInput = ~@]
    /\ UNCHANGED <<categories, saved>> /\ UNCHANGED catVars
    /\ UserEvent("setShowCustomInput", <<>>)
    /\ catFrame

CatTypeCustomName ==
    /\ pc = "categories" /\ history.events < MaxCategoryEvents /\ ModalOnTop /\ modal.showCustomInput
    /\ \E name \in ModalTypedCategories :
            modal' = [modal EXCEPT !.customProductName = name]
    /\ UNCHANGED <<categories, saved>> /\ UNCHANGED catVars
    /\ UserEvent("setCustomProductName", <<>>)
    /\ catFrame

\* handleSave of the rule modal: a typed name its own list does not hold goes
\* through addCategory into localStorage and into the modal's list; onSave,
\* then onClose, which unmounts the modal's category manager.
CatHandleSave ==
    /\ pc = "categories" /\ history.events < MaxCategoryEvents /\ ModalOnTop /\ CanSave(modal)
    /\ LET name == trim(modal.customProductName)
           adds == modal.showCustomInput /\ name # <<>> /\ ~includes(categories, name)
       IN  /\ adds => Len(productCategories) < MaxCategories
           /\ productCategories' =
                    IF adds THEN addCategory(loadCategories(productCategories), name)
                    ELSE productCategories
           /\ categories' =
                    IF adds THEN addCategory(loadCategories(productCategories), name)
                    ELSE categories
           /\ addedByRule' =
                    IF adds /\ ~includes(productCategories, name)
                    THEN addedByRule \cup {name} ELSE addedByRule
    /\ saved' = <<NewRuleGroup(modal, modal.existingRule)>>
    /\ modal' = ClosedModal(modal)
    /\ managers' = [managers EXCEPT !.modal = NoManager]
    /\ UserEvent("handleSave", <<>>)
    /\ catFrame

\* The cancel button of the rule modal.
CatCancelModal ==
    /\ pc = "categories" /\ history.events < MaxCategoryEvents /\ ModalOnTop
    /\ modal' = ClosedModal(modal)
    /\ managers' = [managers EXCEPT !.modal = NoManager]
    /\ UNCHANGED <<categories, saved, productCategories, addedByRule>>
    /\ UserEvent("onClose", <<>>)
    /\ catFrame

\* Whether the button that opens the manager w can be pressed.
CanOpenManager(w) == IF w = "app" THEN PageOnTop ELSE ModalOnTop

\* setIsCategoryManagerOpen(true), in App or in the rule modal.
OpenCategoryManager(w) ==
    /\ pc = "categories" /\ history.events < MaxCategoryEvents /\ CanOpenManager(w)
    /\ managers' = [managers EXCEPT
                        ![w] = [LocalFromHook(@) EXCEPT !.isOpen = TRUE, !.deleted = {}]]
    /\ UNCHANGED <<modal, categories, saved, productCategories, addedByRule>>
    /\ UserEvent("setIsCategoryManagerOpen", <<w>>)
    /\ catFrame

\* handleAddCategory
HandleAddCategory(w) ==
    /\ pc = "categories" /\ history.events < MaxCategoryEvents /\ managers[w].isOpen
    /\ Len(managers[w].localCategories) < MaxCategories
    /\ \E newCategory \in ManagerTypedCategories :
            managers' = [managers EXCEPT
                            ![w].localCategories = Append(@, trim(newCategory)),
                            ![w].isDirty = TRUE]
    /\ UNCHANGED <<modal, categories, saved, productCategories, addedByRule>>
    /\ UserEvent("handleAddCategory", <<w>>)
    /\ catFrame

\* handleDeleteCategory
HandleDeleteCategory(w) ==
    /\ pc = "categories" /\ history.events < MaxCategoryEvents /\ managers[w].isOpen
    /\ \E index \in 1..Len(managers[w].localCategories) :
            managers' = [managers EXCEPT
                            ![w].localCategories = Remove(@, index),
                            ![w].isDirty = TRUE,
                            ![w].deleted = @ \cup {managers[w].localCategories[index]}]
    /\ UNCHANGED <<modal, categories, saved, productCategories, addedByRule>>
    /\ UserEvent("handleDeleteCategory", <<w>>)
    /\ catFrame

\* handleMoveUp on a category that is not the first.
HandleMoveUp(w) ==
    /\ pc = "categories" /\ history.events < MaxCategoryEvents /\ managers[w].isOpen
    /\ \E index \in 2..Len(managers[w].localCategories) :
        LET updatedCategories == managers[w].localCategories
        IN  managers' = [managers EXCEPT
                            ![w].localCategories =
                                [updatedCategories EXCEPT
                                    ![index - 1] = updatedCategories[index],
                                    ![index] = updatedCategories[index - 1]],
                            ![w].isDirty = TRUE]
    /\ UNCHANGED <<modal, categories, saved, productCategories, addedByRule>>
    /\ UserEvent("handleMoveUp", <<w>>)
    /\ catFrame

\* handleSaveChanges: reorderCategories writes the manager's local list to
\* localStorage and to the manager's own useCategories.
HandleSaveChanges(w) ==
    /\ pc = "categories" /\ history.events < MaxCategoryEvents /\ managers[w].isOpen /\ managers[w].isDirty
    /\ productCategories' = managers[w].localCategories
    /\ managers' = [managers EXCEPT
                        ![w] = LocalFromHook([@ EXCEPT !.categories = managers[w].localCategories])]
    /\ UNCHANGED <<modal, categories, saved, addedByRule>>
    /\ UserEvent("handleSaveChanges", <<w>>)
    /\ catFrame

\* onClose of a category manager; the rule modal's handleCategoryManagerClose
\* also clears a selected category its own list does not hold.
CloseCategoryManager(w) ==
    /\ pc = "categories" /\ history.events < MaxCategoryEvents /\ managers[w].isOpen
    /\ managers' = [managers EXCEPT ![w] = [LocalFromHook(@) EXCEPT !.isOpen = FALSE]]
    /\ modal' = IF /\ w = "modal"
                   /\ modal.selectedCategory # <<>>
                   /\ ~includes(categories, modal.selectedCategory)
                THEN [modal EXCEPT !.selectedCategory = <<>>]
                ELSE modal
    /\ UNCHANGED <<categories, saved, productCategories, addedByRule>>
    /\ UserEvent("handleCategoryManagerClose", <<w>>)
    /\ catFrame

NextCat ==
    \/ CatOpenRuleModal \/ CatSelectCategory \/ CatToggleCustomInput
    \/ CatTypeCustomName \/ CatHandleSave \/ CatCancelModal
    \/ \E w \in {"app", "modal"} :
        \/ OpenCategoryManager(w) \/ HandleAddCategory(w)
        \/ HandleDeleteCategory(w) \/ HandleMoveUp(w)
        \/ HandleSaveChanges(w) \/ CloseCategoryManager(w)

SpecCat == InitCat /\ [][NextCat]_vars

\* C24: when the category manager of the rule modal is closed and the
\* selected category is no longer in the stored list, the selection is
\* cleared.
C24_DeletedCategoryCleared ==
    [][ (/\ history'.event = "handleCategoryManagerClose"
         /\ history'.arg = <<"modal">>
         /\ modal.selectedCategory # <<>>
         /\ ~includes(productCategories, modal.selectedCategory))
            => modal'.selectedCategory = <<>> ]_vars

\* C30: a category the rule modal has added to the stored list is still in
\* the stored list after a category manager saves its changes, unless it was
\* deleted in that manager.
C30_NoCategoryLost ==
    [][ history'.event = "handleSaveChanges"
            => \A c \in addedByRule :
                    (/\ includes(productCategories, c)
                     /\ c \notin managers[history'.arg[1]].deleted)
                        => includes(productCategories', c) ]_vars

=============================================================================
